---- MODULE Spec2Model ----
(***************************************************************************)
(* Model of src/node/update.ts: the UpdateService of code-server.          *)
(*                                                                         *)
(* The service is one object with one lifecycle state (this.state), driven *)
(* by asynchronous methods.  Every `await` of the source is a suspension   *)
(* point: the code between two awaits runs as one atomic step of the       *)
(* single-threaded event loop, so each action below is "the awaited        *)
(* operation settles, and the method runs on to its next await".  Callers  *)
(* are the parties that invoke the methods; several may have a call        *)
(* suspended at the same time.                                             *)
(***************************************************************************)
EXTENDS Integers, Sequences, FiniteSets, TLC

\* ------------------------------------------------------------------ bounds

\* Number of callers that may have a method call suspended at the same time.
NumCallers == 2

\* Number of calls the callers make in all.
MaxCalls == 2

\* Longest version string drawn for the version comparison.
MaxLen == 2

Callers == 1..NumCallers

\* ------------------------------------------------------------ option values

\* null / undefined is the empty set, a present value x is {x}.
None == {}

Some(x) == {x}

The(o) == CHOOSE x \in o : TRUE

\* ------------------------------------------------------- version strings

\* A string is a sequence of characters; these are the characters drawn.
Chars == {"1", "2", "v", "-"}

Digits == <<"0", "1", "2", "3", "4", "5", "6", "7", "8", "9">>

IsDigit(c) == \E i \in 1..Len(Digits) : Digits[i] = c

DigitVal(c) == (CHOOSE i \in 1..Len(Digits) : Digits[i] = c) - 1

RECURSIVE StringsOfLen(_)
StringsOfLen(n) ==
    IF n = 0 THEN {<<>>}
    ELSE {Append(s, c) : s \in StringsOfLen(n - 1), c \in Chars}

\* Every version name of 1..MaxLen characters.
Names == UNION {StringsOfLen(n) : n \in 1..MaxLen}

\* The value parseInt yields: a number, or NaN.
NaN == [nan |-> TRUE, val |-> 0]

Num(n) == [nan |-> FALSE, val |-> n]

isNaN(x) == x.nan

RECURSIVE SkipWhite(_)
SkipWhite(s) ==
    IF s # <<>> /\ Head(s) = " " THEN SkipWhite(Tail(s)) ELSE s

\* The digits s starts with, as a number; `seen` tells whether one was read.
RECURSIVE ReadDigits(_, _, _)
ReadDigits(s, acc, seen) ==
    IF s # <<>> /\ IsDigit(Head(s))
    THEN ReadDigits(Tail(s), 10 * acc + DigitVal(Head(s)), TRUE)
    ELSE [seen |-> seen, val |-> acc]

\* parseInt(s) with no radix: leading white space is skipped, a sign is read,
\* then the longest run of decimal digits; NaN when there is no digit.
parseInt(s) ==
    LET t == SkipWhite(s)
        neg == t # <<>> /\ Head(t) = "-"
        body == IF neg THEN Tail(t) ELSE t
        r == ReadDigits(body, 0, FALSE)
    IN  IF r.seen THEN Num(IF neg THEN 0 - r.val ELSE r.val) ELSE NaN

\* ------------------------------------------------------------ JS values

\* An async function returns a Promise object, whatever it resolves to.
Promise(v) == [kind |-> "Promise", value |-> v]

\* ToBoolean of the values the conditions of the source test: an object (a
\* Promise is one) is truthy, a boolean is itself.
Truthy(x) == IF x.kind = "Promise" THEN TRUE ELSE x.value

\* The contexts a check is called with; !!context is false for undefined.
Contexts == {"undefined", "manual"}

ContextGiven(context) == context # "undefined"

\* --------------------------------------------------------------- errors

Error(message) == [name |-> "Error", message |-> message]

\* Error.prototype.toString() of an error whose message is empty: its name.
\* (Line 128 calls it only then: `error.message || error.toString()`.)
ErrorToString(error) == error.name

\* ------------------------------------------------------------ lifecycle

\* vs/platform/update State values, as one record shape.
StateIdle(message) ==
    [type |-> "Idle", context |-> "undefined", update |-> None, message |-> message]

StateCheckingForUpdates(context) ==
    [type |-> "CheckingForUpdates", context |-> context, update |-> None,
     message |-> None]

StateAvailableForDownload(update) ==
    [type |-> "AvailableForDownload", context |-> "undefined",
     update |-> Some(update), message |-> None]

\* State.Updating: the state the spec calls Downloading.
StateUpdating(update) ==
    [type |-> "Updating", context |-> "undefined", update |-> Some(update),
     message |-> None]

\* StateReady leaving the state at Updating.
StateReady_stale(update) ==
    [type |-> "Updating", context |-> "undefined", update |-> Some(update),
     message |-> None]

StateReady(update) ==
    [type |-> "Ready", context |-> "undefined", update |-> Some(update),
     message |-> None]

\* The IUpdate the check builds from a release.
UpdateOf(name) == [version |-> name, productVersion |-> name]

\* ------------------------------------------------------------ inputs

\* The running version and the releases the feed serves, for the lifecycle.
RunningVersions == {<<"1">>}

FeedReleases == {<<"1">>, <<"2">>}

\* The updates a caller hands to doDownloadUpdate: AvailableForDownload states
\* as line 71 builds them, of a release that is not the running version.
DownloadVersions == FeedReleases \ RunningVersions

Updates == {UpdateOf(n) : n \in DownloadVersions}

\* The hosts: os.platform() and os.arch().
Hosts == {[platform |-> "linux", arch |-> "x64"],
          [platform |-> "darwin", arch |-> "arm64"]}

\* What `ldd --version` can do: run, with these texts on its two outputs, or
\* fail, with one of them as the error's message.
ProbeTexts == {"musl libc (x86_64)", "ldd (GNU libc) 2.28"}

Probes ==
    {[failed |-> FALSE, stdout |-> o, stderr |-> e, message |-> ""] :
        o \in ProbeTexts, e \in ProbeTexts \cup {""}}
    \cup {[failed |-> TRUE, stdout |-> "", stderr |-> "", message |-> m] :
        m \in ProbeTexts}

\* Line 134: the probe runs on linux only.
NoProbe == [failed |-> FALSE, stdout |-> "", stderr |-> "", message |-> ""]

ProbesOn(platform) == IF platform = "linux" THEN Probes ELSE {NoProbe}

\* The content-encoding header of the asset response.
Encodings == {"gzip", "identity"}

\* The failures of the feed request: a transport error, and one whose message
\* is empty.
FeedErrors == {Error("feed request failed"), Error("")}

MkdirpErrors == {Error("EACCES: mkdirp")}

AssetErrors == {Error("asset request failed"), Error("")}

WriteErrors == {Error("ENOSPC: write")}

ExtractErrors == {Error("extract failed")}

UnlinkErrors == {Error("EPERM: unlink")}

MoveErrors == {Error("ENOENT: rename")}

RimrafErrors == {Error("EBUSY: rmdir")}

NoBinaryError == Error("No code-server binary in extracted archive")

VARIABLES
    codeServerVersion,  \* pkg.codeServerVersion
    host,               \* os.platform() and os.arch()
    state,              \* this.state
    requests,           \* requests in flight: [from, url]
    executable,         \* the file at process.argv[0], if any
    archive,            \* per version: the file at <tmpdir>/<version>-archive
    extracted,          \* per version: the directory at <tmpdir>/<version>
    removals,           \* rimraf calls in flight: [from, path, detached]
    pc,                 \* per caller: where its call is suspended
    context,            \* per caller: the context of its check
    update,             \* per caller: state.update of its download
    releaseName,        \* per caller: the name buildReleaseName returned
    stream,             \* per caller: context.stream: the response's encoding, and
                        \*   whether the code has piped it through gunzip
    caught,             \* per caller: the error its catch block caught, if any
    raced,              \* per caller: whether another call or removal ran during its call
    probed,             \* what the libc probe did in the last step, if it ran then
    logged,             \* the error the last step gave to logService.error, if any
    settled,            \* the call the last step settled, if any
    calls               \* the number of calls made so far

files == <<executable, archive, extracted>>

locals == <<context, update, releaseName, stream, caught, raced>>

vars == <<codeServerVersion, host, state, requests, executable, archive, extracted,
          removals, pc, context, update, releaseName, stream, caught, raced,
          probed, logged, settled, calls>>

\* ------------------------------------------------------------- names

NoName == [release |-> <<>>, target |-> "", arch |-> ""]

FeedUrl ==
    [site |-> "https://api.github.com/repos/cdr/code-server/releases/latest",
     version |-> <<>>, asset |-> NoName, ext |-> ""]

\* Lines 95-97.
AssetUrl(version, name, target) ==
    [site |-> "https://github.com/cdr/code-server/releases/download/",
     version |-> version, asset |-> name,
     ext |-> IF target = "darwin" THEN "zip" ELSE "tar.gz"]

Request(p, url) == [from |-> p, url |-> url]

\* Lines 98-99: the two temporary paths of a version.
downloadPath(version) == [dir |-> "archive", version |-> version]

extractPath(version) == [dir |-> "extract", version |-> version]

\* File contents: the binary the process was started from, and the binary an
\* archive of a release holds for a target.
InstalledBinary == [from |-> "installed", release |-> <<>>, target |-> ""]

ReleaseBinary(name) ==
    [from |-> "release", release |-> name.release, target |-> name.target]

\* No response yet.
NoStream == [encoding |-> "", gunzipped |-> FALSE]

\* ------------------------------------------------------------- steps

\* A step that logs nothing.
Quiet == logged' = None

\* A step in which no libc probe settles.
Unprobed == probed' = None

\* A step that settles no call.
Pending == settled' = None

\* A caller with no call suspended makes one.
Begin(p) ==
    /\ pc[p] = "idle"
    /\ calls < MaxCalls
    /\ calls' = calls + 1

\* A call suspends at its first await, holding its arguments.
Call(p, at, ctx, upd) ==
    /\ pc' = [pc EXCEPT ![p] = at]
    /\ context' = [context EXCEPT ![p] = ctx]
    /\ update' = [update EXCEPT ![p] = upd]
    /\ raced' = [q \in Callers |->
                    IF q = p
                    THEN removals # {} \/ \E o \in Callers \ {p} : pc[o] # "idle"
                    ELSE raced[q] \/ pc[q] # "idle"]
    /\ UNCHANGED <<releaseName, stream, caught>>
    /\ Pending

\* A suspended call moves on to its next await.
Goto(p, at) ==
    /\ pc' = [pc EXCEPT ![p] = at]
    /\ UNCHANGED raced
    /\ Pending

\* What a settled call leaves to its caller: the method, whether its promise
\* resolved or rejected, whether the method ran past its guard, the release its
\* feed request returned, the update it was given, the error it caught, the
\* value it resolved to, and whether another call or removal ran meanwhile.
Outcome(p, method, how, ran, latest, upd, error, value) ==
    [caller |-> p, method |-> method, how |-> how, ran |-> ran,
     fetched |-> latest, update |-> upd, caught |-> error, value |-> value,
     raced |-> raced[p]]

\* The caller's promise settles, and the locals of the call are gone.
Return(p, outcome) ==
    /\ pc' = [pc EXCEPT ![p] = "idle"]
    /\ context' = [context EXCEPT ![p] = "undefined"]
    /\ update' = [update EXCEPT ![p] = None]
    /\ releaseName' = [releaseName EXCEPT ![p] = NoName]
    /\ stream' = [stream EXCEPT ![p] = NoStream]
    /\ caught' = [caught EXCEPT ![p] = None]
    /\ raced' = [raced EXCEPT ![p] = FALSE]
    /\ settled' = Some(outcome)

\* ---------------------------------------------------- isLatestVersion

\* isLatestVersionOf with the majors compared strictly.
isLatestVersionOf_strict(latest) ==
    IF latest # None
    THEN LET latestMajor == parseInt(The(latest).name)
             currentMajor == parseInt(codeServerVersion)
         IN  /\ ~isNaN(latestMajor)
             /\ ~isNaN(currentMajor)
             /\ currentMajor.val < latestMajor.val
             /\ The(latest).name = codeServerVersion
    ELSE TRUE

\* Lines 44-50: the answer once `latest` is known.
isLatestVersionOf(latest) ==
    IF latest # None
    THEN LET latestMajor == parseInt(The(latest).name)
             currentMajor == parseInt(codeServerVersion)
         IN  /\ ~isNaN(latestMajor)
             /\ ~isNaN(currentMajor)
             /\ currentMajor.val <= latestMajor.val
             /\ The(latest).name = codeServerVersion
    ELSE TRUE

\* Lines 40-43: isLatestVersion(latest), up to its await, or to its end when
\* latest is given.
isLatestVersion(p, latest) ==
    /\ Begin(p)
    /\ IF latest = None
       THEN /\ requests' = requests \cup {Request(p, FeedUrl)}
            /\ Call(p, "latest_fetch", "undefined", None)
       ELSE /\ Return(p, Outcome(p, "isLatestVersion", "resolved", TRUE, latest,
                                 None, None, isLatestVersionOf(latest)))
            /\ UNCHANGED requests
    /\ Quiet
    /\ UNCHANGED <<codeServerVersion, host, state, files, removals>>
    /\ Unprobed

\* Lines 42-50: getLatestVersion settles inside isLatestVersion.
isLatestVersionFetched(p) ==
    /\ pc[p] = "latest_fetch"
    /\ requests' = requests \ {Request(p, FeedUrl)}
    /\ \/ \E error \in FeedErrors :
            Return(p, Outcome(p, "isLatestVersion", "rejected", TRUE, None, None,
                              None, FALSE))
       \/ \E latest \in {None} \cup {Some([name |-> n]) : n \in Names} :
            Return(p, Outcome(p, "isLatestVersion", "resolved", TRUE, latest,
                              None, None, isLatestVersionOf(latest)))
    /\ Quiet
    /\ UNCHANGED <<calls, codeServerVersion, host, state, files, removals>>
    /\ Unprobed

\* ------------------------------------------------------ onRequestError

\* ErrorMessage without the fall-back to error.toString().
ErrorMessage_raw(error, showNotification) ==
    IF showNotification THEN Some(error.message) ELSE None

\* ErrorMessage attaching the message whatever showNotification is.
ErrorMessage_always(error, showNotification) ==
    Some(IF error.message # "" THEN error.message ELSE ErrorToString(error))

\* Line 128: the message the idle state carries.
ErrorMessage(error, showNotification) ==
    IF showNotification
    THEN Some(IF error.message # "" THEN error.message ELSE ErrorToString(error))
    ELSE None

\* Lines 126-130.
onRequestError(error, showNotification) ==
    /\ logged' = Some(error)
    /\ state' = StateIdle(ErrorMessage(error, showNotification))

\* --------------------------------------------------- doCheckForUpdates

\* TreatedAsLatest with the comparison negated.
TreatedAsLatest_negated(latest) ==
    latest = None \/ ~isLatestVersionOf(latest)

\* Line 68: `!update || this.isLatestVersion(update)`; the call is not awaited,
\* so its value is the Promise.
TreatedAsLatest(latest) ==
    latest = None \/ Truthy(Promise(isLatestVersionOf(latest)))

\* StateAfterCheck leaving the state at CheckingForUpdates.
StateAfterCheck_checking(latest) == StateCheckingForUpdates("undefined")

\* Lines 68-75: the state a fetched release leads to.
StateAfterCheck(latest) ==
    IF TreatedAsLatest(latest)
    THEN StateIdle(None)
    ELSE StateAvailableForDownload(UpdateOf(The(latest).name))

\* NotIdle guarding against a running check only.
NotIdle_checking == state.type = "CheckingForUpdates"

\* Line 62: the guard of doCheckForUpdates.
NotIdle == state.type # "Idle"

\* Lines 61-67: doCheckForUpdates(context) up to its await.
doCheckForUpdates(p, ctx) ==
    /\ Begin(p)
    /\ IF NotIdle
       THEN /\ Return(p, Outcome(p, "doCheckForUpdates", "resolved", FALSE, None,
                                 None, None, TRUE))
            /\ UNCHANGED <<state, requests>>
       ELSE /\ state' = StateCheckingForUpdates(ctx)
            /\ requests' = requests \cup {Request(p, FeedUrl)}
            /\ Call(p, "check_fetch", ctx, None)
    /\ Quiet
    /\ UNCHANGED <<codeServerVersion, host, files, removals>>
    /\ Unprobed

\* Lines 67-78: getLatestVersion settles and the check runs to its end.
doCheckForUpdatesFetched(p) ==
    /\ pc[p] = "check_fetch"
    /\ requests' = requests \ {Request(p, FeedUrl)}
    /\ \/ \E latest \in {None} \cup {Some([name |-> n]) : n \in FeedReleases} :
            /\ state' = StateAfterCheck(latest)
            /\ Quiet
            /\ Return(p, Outcome(p, "doCheckForUpdates", "resolved", TRUE, latest,
                                 None, None, TRUE))
       \/ \E error \in FeedErrors :
            /\ onRequestError(error, ContextGiven(context[p]))
            /\ Return(p, Outcome(p, "doCheckForUpdates", "resolved", TRUE, None,
                                 None, Some(error), TRUE))
    /\ UNCHANGED <<calls, codeServerVersion, host, files, removals>>
    /\ Unprobed

\* ----------------------------------------------------- buildReleaseName

\* String.indexOf("musl") !== -1, on the texts a probe yields.
ContainsMusl(text) == text = "musl libc (x86_64)"

\* ProbeResult dropping the message of a failure.
ProbeResult_glibc(probe) ==
    IF probe.failed
    THEN [stderr |-> "", stdout |-> ""]
    ELSE [stderr |-> probe.stderr, stdout |-> probe.stdout]

\* Lines 135-138: the result the probe leaves, its failure caught.
ProbeResult(probe) ==
    IF probe.failed
    THEN [stderr |-> probe.message, stdout |-> ""]
    ELSE [stderr |-> probe.stderr, stdout |-> probe.stdout]

\* Lines 133-142: the platform label.
TargetLabel(platform, probe) ==
    IF platform = "linux"
       /\ (ContainsMusl(ProbeResult(probe).stderr)
           \/ ContainsMusl(ProbeResult(probe).stdout))
    THEN "alpine"
    ELSE platform

\* Lines 143-146.
ArchLabel(arch) == IF arch = "x64" THEN "x86_64" ELSE arch

\* Line 147: `code-server${release}-${target}-${arch}`, as its three parts.
buildReleaseName(release, probe) ==
    [release |-> release, target |-> TargetLabel(host.platform, probe),
     arch |-> ArchLabel(host.arch)]

\* ----------------------------------------------------- doDownloadUpdate

Version(p) == The(update[p]).version

Removal(p, path) == [from |-> p, path |-> path, detached |-> FALSE]

\* Cleanup removing the downloaded archive only.
Cleanup_archiveOnly(p) ==
    /\ removals' = removals \cup {Removal(p, downloadPath(Version(p)))}
    /\ Goto(p, "rimraf")

\* Line 123: both removals start; the call waits for them.
Cleanup(p) ==
    /\ removals' = removals \cup {Removal(p, downloadPath(Version(p))),
                                  Removal(p, extractPath(Version(p)))}
    /\ Goto(p, "rimraf")

\* Lines 120-123: the catch block, then the cleanup.
Fail(p, error) ==
    /\ onRequestError(error, TRUE)
    /\ caught' = [caught EXCEPT ![p] = Some(error)]
    /\ Cleanup(p)

\* The try block goes on to its next await.
Proceed(p, at) ==
    /\ Goto(p, at)
    /\ Quiet
    /\ UNCHANGED <<state, removals, caught>>

\* Lines 91-94: doDownloadUpdate(state) up to its first await.
doDownloadUpdate(p, upd) ==
    /\ Begin(p)
    /\ state' = StateUpdating(upd)
    /\ Call(p, "buildReleaseName", "undefined", Some(upd))
    /\ Quiet
    /\ UNCHANGED <<codeServerVersion, host, requests, files, removals>>
    /\ Unprobed

\* Lines 94-101: buildReleaseName settles; mkdirp starts.
buildReleaseNameDone(p) ==
    /\ pc[p] = "buildReleaseName"
    /\ \E probe \in ProbesOn(host.platform) :
            /\ releaseName' = [releaseName EXCEPT
                                  ![p] = buildReleaseName(Version(p), probe)]
            /\ probed' = IF host.platform = "linux"
                         THEN Some([caller |-> p, probe |-> probe])
                         ELSE None
    /\ Proceed(p, "mkdirp")
    /\ UNCHANGED <<calls, codeServerVersion, host, requests, files, context, update,
                   stream>>

\* Lines 101-102: mkdirp settles; the asset request starts.
mkdirpDone(p) ==
    /\ pc[p] = "mkdirp"
    /\ \/ /\ requests' = requests \cup
                {Request(p, AssetUrl(Version(p), releaseName[p], host.platform))}
          /\ Proceed(p, "request")
       \/ \E error \in MkdirpErrors :
            /\ Fail(p, error)
            /\ UNCHANGED requests
    /\ UNCHANGED <<calls, codeServerVersion, host, files, context, update, releaseName,
                   stream>>
    /\ Unprobed

\* Gunzips looking at the target only.
Gunzips_anyEncoding(target, encoding) == target # "darwin"

\* Line 106: whether the code pipes the response through zlib.createGunzip().
Gunzips(target, encoding) == target # "darwin" /\ encoding # "gzip"

\* Lines 102-110: context.stream after the request.
StreamOf(target, encoding) ==
    [encoding |-> encoding, gunzipped |-> Gunzips(target, encoding)]

\* Lines 103-104: the gunzip passes between the response body and what
\* context.stream yields; the request service has made one when the encoding is
\* gzip.
Passes(s) ==
    (IF s.encoding = "gzip" THEN 1 ELSE 0) + (IF s.gunzipped THEN 1 ELSE 0)

\* Lines 102-111: the request settles; writeFile starts.
requestDone(p) ==
    /\ pc[p] = "request"
    /\ requests' = requests \
            {Request(p, AssetUrl(Version(p), releaseName[p], host.platform))}
    /\ \/ \E encoding \in Encodings :
            /\ stream' = [stream EXCEPT ![p] = StreamOf(host.platform, encoding)]
            /\ Proceed(p, "writeFile")
       \/ \E error \in AssetErrors :
            /\ Fail(p, error)
            /\ UNCHANGED stream
    /\ UNCHANGED <<calls, codeServerVersion, host, files, context, update, releaseName>>
    /\ Unprobed

File(complete, gunzips) == [complete |-> complete, gunzips |-> gunzips]

\* Lines 111-112: writeFile settles; extract starts.  A failed write may leave
\* a part of the file.
writeFileDone(p) ==
    /\ pc[p] = "writeFile"
    /\ \/ /\ archive' = [archive EXCEPT
                            ![Version(p)] = Some(File(TRUE, Passes(stream[p])))]
          /\ Proceed(p, "extract")
       \/ \E error \in WriteErrors, left \in BOOLEAN :
            /\ archive' = IF left
                          THEN [archive EXCEPT
                                   ![Version(p)] = Some(File(FALSE, Passes(stream[p])))]
                          ELSE archive
            /\ Fail(p, error)
    /\ UNCHANGED <<calls, codeServerVersion, host, requests, executable, extracted,
                   context, update, releaseName, stream>>
    /\ Unprobed

\* The binaries in a directory, by target; none when the directory is absent.
BinariesIn(dir) == IF dir = None THEN {} ELSE The(dir)

Binaries(version) == BinariesIn(extracted[version])

\* pfs.exists(newBinary), lines 113-114: a Promise of whether the file is in
\* the directory extract has left.
exists(name, dir) == Promise(name.target \in BinariesIn(dir))

\* Line 114: `!pfs.exists(newBinary)`, the Promise not awaited.
ReportedMissing(name, dir) == ~Truthy(exists(name, dir))

\* Lines 112-117: extract settles; the binary is looked for; unlink starts.
\* extract needs the whole archive; a failed one may leave the directory.
extractDone(p) ==
    /\ pc[p] = "extract"
    /\ \/ /\ archive[Version(p)] # None
          /\ The(archive[Version(p)]).complete
          /\ \E holds \in BOOLEAN :
                LET dir == Some(Binaries(Version(p))
                                \cup (IF holds THEN {releaseName[p].target} ELSE {}))
                IN  /\ extracted' = [extracted EXCEPT ![Version(p)] = dir]
                    /\ IF ReportedMissing(releaseName[p], dir)
                       THEN Fail(p, NoBinaryError)
                       ELSE Proceed(p, "unlink")
       \/ \E error \in ExtractErrors, left \in BOOLEAN :
            /\ extracted' = IF left
                            THEN [extracted EXCEPT ![Version(p)] =
                                     Some(Binaries(Version(p)))]
                            ELSE extracted
            /\ Fail(p, error)
    /\ UNCHANGED <<calls, codeServerVersion, host, requests, executable, archive, context,
                   update, releaseName, stream>>
    /\ Unprobed

\* unlinkDone going on to the move when the unlink has failed.
unlinkDone_moveOnFailure(p) ==
    /\ pc[p] = "unlink"
    /\ \/ /\ executable # None
          /\ executable' = None
       \/ UNCHANGED executable
    /\ Proceed(p, "move")
    /\ UNCHANGED <<calls, codeServerVersion, host, requests, archive, extracted, context,
                   update, releaseName, stream>>
    /\ Unprobed

\* Lines 117-118: unlink(process.argv[0]) settles; move starts.
unlinkDone(p) ==
    /\ pc[p] = "unlink"
    /\ \/ /\ executable # None
          /\ executable' = None
          /\ Proceed(p, "move")
       \/ \E error \in UnlinkErrors :
            /\ Fail(p, error)
            /\ UNCHANGED executable
    /\ UNCHANGED <<calls, codeServerVersion, host, requests, archive, extracted, context,
                   update, releaseName, stream>>
    /\ Unprobed

\* Lines 118-123: move(newBinary, process.argv[0]) settles; the state is Ready;
\* the cleanup starts.
moveDone(p) ==
    /\ pc[p] = "move"
    /\ \/ /\ releaseName[p].target \in Binaries(Version(p))
          /\ executable' = Some(ReleaseBinary(releaseName[p]))
          /\ extracted' = [extracted EXCEPT ![Version(p)] =
                              Some(Binaries(Version(p)) \ {releaseName[p].target})]
          /\ state' = StateReady(The(update[p]))
          /\ Cleanup(p)
          /\ Quiet
          /\ UNCHANGED caught
       \/ \E error \in MoveErrors :
            /\ Fail(p, error)
            /\ UNCHANGED <<executable, extracted>>
    /\ UNCHANGED <<calls, codeServerVersion, host, requests, archive, context, update,
                   releaseName, stream>>
    /\ Unprobed

\* pfs.rimraf(path) has removed the path.
Removed(path) ==
    IF path.dir = "archive"
    THEN /\ archive' = [archive EXCEPT ![path.version] = None]
         /\ UNCHANGED extracted
    ELSE /\ extracted' = [extracted EXCEPT ![path.version] = None]
         /\ UNCHANGED archive

\* The removals a call still waits for, r set aside.
Awaited(p, r) == {q \in removals \ {r} : q.from = p /\ ~q.detached}

\* Line 123: one rimraf settles.  Promise.all resolves with the last removal
\* and rejects with the first failure, leaving the other removal running.
rimrafDone(p, r) ==
    /\ r \in removals
    /\ r.from = p
    /\ \/ /\ Removed(r.path)
          /\ removals' = removals \ {r}
          /\ IF ~r.detached /\ Awaited(p, r) = {}
             THEN Return(p, Outcome(p, "doDownloadUpdate", "resolved", TRUE, None,
                                    update[p], caught[p], TRUE))
             ELSE /\ Pending
                  /\ UNCHANGED <<pc, locals>>
       \/ \E error \in RimrafErrors :
            /\ UNCHANGED <<archive, extracted>>
            /\ IF r.detached
               THEN /\ removals' = removals \ {r}
                    /\ Pending
                    /\ UNCHANGED <<pc, locals>>
               ELSE /\ removals' = (removals \ ({r} \cup Awaited(p, r)))
                        \cup {[q EXCEPT !.detached = TRUE] : q \in Awaited(p, r)}
                    /\ Return(p, Outcome(p, "doDownloadUpdate", "rejected", TRUE,
                                         None, update[p], caught[p], TRUE))
    /\ Quiet
    /\ UNCHANGED <<calls, codeServerVersion, host, state, requests, executable>>
    /\ Unprobed

\* ------------------------------------------------------ specifications

InitCallers ==
    /\ pc = [p \in Callers |-> "idle"]
    /\ context = [p \in Callers |-> "undefined"]
    /\ update = [p \in Callers |-> None]
    /\ releaseName = [p \in Callers |-> NoName]
    /\ stream = [p \in Callers |-> NoStream]
    /\ caught = [p \in Callers |-> None]
    /\ raced = [p \in Callers |-> FALSE]
    /\ settled = None
    /\ calls = 0

InitService ==
    /\ state = StateIdle(None)
    /\ requests = {}
    /\ logged = None
    /\ probed = None
    /\ executable = Some(InstalledBinary)
    /\ archive = [v \in DownloadVersions |-> None]
    /\ extracted = [v \in DownloadVersions |-> None]
    /\ removals = {}

Init ==
    /\ codeServerVersion \in RunningVersions
    /\ host \in Hosts
    /\ InitService
    /\ InitCallers

Next ==
    \/ \E p \in Callers, ctx \in Contexts : doCheckForUpdates(p, ctx)
    \/ \E p \in Callers : doCheckForUpdatesFetched(p)
    \/ \E p \in Callers, upd \in Updates : doDownloadUpdate(p, upd)
    \/ \E p \in Callers : buildReleaseNameDone(p)
    \/ \E p \in Callers : mkdirpDone(p)
    \/ \E p \in Callers : requestDone(p)
    \/ \E p \in Callers : writeFileDone(p)
    \/ \E p \in Callers : extractDone(p)
    \/ \E p \in Callers : unlinkDone(p)
    \/ \E p \in Callers : moveDone(p)
    \/ \E p \in Callers, r \in removals : rimrafDone(p, r)

Spec == Init /\ [][Next]_vars

\* The operation a suspended call of the caller awaits, or a removal it has
\* started, settles.
Settles(p) ==
    \/ doCheckForUpdatesFetched(p)
    \/ buildReleaseNameDone(p)
    \/ mkdirpDone(p)
    \/ requestDone(p)
    \/ writeFileDone(p)
    \/ extractDone(p)
    \/ unlinkDone(p)
    \/ moveDone(p)
    \/ \E r \in removals : rimrafDone(p, r)

\* Every operation a call awaits completes or throws in the end; no caller is
\* bound to make a call.
Fairness == \A p \in Callers : WF_vars(Settles(p))

SpecLive == Init /\ [][Next]_vars /\ Fairness

\* The version comparison alone, over every version name.
InitVersions ==
    /\ codeServerVersion \in Names
    /\ host \in Hosts
    /\ InitService
    /\ InitCallers

NextVersions ==
    \/ \E latest \in {None} \cup {Some([name |-> n]) : n \in Names} :
            isLatestVersion(1, latest)
    \/ isLatestVersionFetched(1)

SpecVersions == InitVersions /\ [][NextVersions]_vars

\* ------------------------------------------------------------- claims

IsCheck(o) == o.method = "doCheckForUpdates"

IsDownload(o) == o.method = "doDownloadUpdate"

IsLatestCall(o) == o.method = "isLatestVersion"

\* A settled check that ran from Idle and whose feed request returned a release
\* other than the running version.
FoundNewer(o) ==
    /\ IsCheck(o)
    /\ o.ran
    /\ o.caught = None
    /\ o.fetched # None
    /\ The(o.fetched).name # codeServerVersion

\* The state is AvailableForDownload and carries the name in both fields.
AvailableWith(name) ==
    /\ state.type = "AvailableForDownload"
    /\ state.update = Some([version |-> name, productVersion |-> name])

\* The state is Ready and carries the update.
ReadyWith(upd) ==
    /\ state.type = "Ready"
    /\ state.update = upd

\* The executable path holds the binary of the release of that version.
Installed(version) ==
    /\ executable # None
    /\ The(executable).from = "release"
    /\ The(executable).release = version

\* Neither temporary path of the version exists.
TempAbsent(version) ==
    /\ archive[version] = None
    /\ extracted[version] = None

\* C1: end to end: a check from Idle whose feed returns a release other than the
\* running version leaves the AvailableForDownload state of that release, and
\* the download of that update, every step of it succeeding and nothing else
\* running meanwhile, ends in Ready with the new binary at the executable path
\* and both temporary paths absent.
C1_EndToEnd ==
    \A o \in settled :
        /\ FoundNewer(o) => AvailableWith(The(o.fetched).name)
        /\ (IsDownload(o) /\ o.how = "resolved" /\ o.caught = None /\ ~o.raced)
            => /\ ReadyWith(o.update)
               /\ Installed(The(o.update).version)
               /\ TempAbsent(The(o.update).version)

\* C2: a check that ran from Idle and fetched a release whose name differs from
\* the running version ends in AvailableForDownload, with version and
\* productVersion both that name.
C2_NewReleaseAvailable ==
    \A o \in settled :
        FoundNewer(o) =>
            /\ state.type = "AvailableForDownload"
            /\ \E u \in state.update :
                /\ u.version = The(o.fetched).name
                /\ u.productVersion = The(o.fetched).name

\* C3: a check called while the state is not Idle issues no feed request and
\* leaves the state unchanged.
C3_CheckOnlyFromIdle ==
    [][\A p \in Callers, ctx \in Contexts :
         (state.type # "Idle" /\ doCheckForUpdates(p, ctx))
            => (state' = state /\ requests' = requests)]_vars

\* C3 witness: a check has returned without running while the state is Ready.
C3_Witness ==
    \E o \in settled : IsCheck(o) /\ ~o.ran /\ state.type = "Ready" /\ requests = {}

\* C4: a check that ran from Idle and fetched no release, or a release whose
\* name equals the running version, ends in Idle with no message.
C4_UpToDateIdle ==
    \A o \in settled :
        (/\ IsCheck(o)
         /\ o.ran
         /\ o.caught = None
         /\ (o.fetched = None \/ The(o.fetched).name = codeServerVersion))
            => (state.type = "Idle" /\ state.message = None)

\* C4 witness: a check that fetched the running version has ended in Idle with
\* no message.
C4_Witness ==
    \E o \in settled :
        /\ IsCheck(o)
        /\ o.ran
        /\ o.fetched = Some([name |-> codeServerVersion])
        /\ state.type = "Idle"
        /\ state.message = None

\* C5: isLatestVersion answers true for every candidate whose name equals the
\* running version, whatever the name begins with.
C5_EqualNamesAreLatest ==
    \A o \in settled :
        (/\ IsLatestCall(o)
         /\ o.how = "resolved"
         /\ o.fetched # None
         /\ The(o.fetched).name = codeServerVersion)
            => o.value

\* A version name begins with an integer: a digit, after an optional sign.
LeadingInteger(name) ==
    \E i \in 1..Len(name) :
        /\ IsDigit(name[i])
        /\ \A j \in 1..(i - 1) : j = 1 /\ name[j] = "-"

\* C6: isLatestVersion answers true for a candidate exactly when both names
\* begin with an integer, the running major is at most the candidate's and the
\* two names are identical; with no candidate and none in the feed it answers
\* true.
C6_IsLatestPolicy ==
    \A o \in settled :
        (IsLatestCall(o) /\ o.how = "resolved") =>
            IF o.fetched = None
            THEN o.value
            ELSE o.value <=>
                    /\ LeadingInteger(The(o.fetched).name)
                    /\ LeadingInteger(codeServerVersion)
                    /\ parseInt(codeServerVersion).val
                         <= parseInt(The(o.fetched).name).val
                    /\ The(o.fetched).name = codeServerVersion

\* C6 witness: a candidate was given and the answer is true.
C6_Witness ==
    \E o \in settled :
        IsLatestCall(o) /\ o.how = "resolved" /\ o.fetched # None /\ o.value

\* The errors of the steps before the binary is looked for.
EarlyErrors == MkdirpErrors \cup AssetErrors \cup WriteErrors \cup ExtractErrors

\* A download has just failed after an extraction that left no binary at the
\* expected path, nothing else running meanwhile.
FailedWithoutBinary(p) ==
    /\ pc[p] = "rimraf"
    /\ ~raced[p]
    /\ caught[p] # None
    /\ caught[p] = logged
    /\ The(caught[p]) \notin EarlyErrors
    /\ extracted[Version(p)] # None
    /\ releaseName[p].target \notin Binaries(Version(p))

\* C7: when the extraction succeeds and leaves no binary at the expected path,
\* the attempt fails with the "no binary" error, which is the idle state's
\* message, and both temporary paths are removed when it ends.
C7_NoBinaryReported ==
    /\ \A p \in Callers :
        FailedWithoutBinary(p) =>
            /\ caught[p] = Some(NoBinaryError)
            /\ state.type = "Idle"
            /\ state.message = Some(NoBinaryError.message)
    /\ \A o \in settled :
        (IsDownload(o) /\ o.caught = Some(NoBinaryError) /\ o.how = "resolved"
            /\ ~o.raced) => TempAbsent(The(o.update).version)

\* The unlink and the move of the caller's attempt have both succeeded.
Swapped(p) == pc[p] = "rimraf" /\ caught[p] = None

\* C8: when the unlink and the move of an attempt both succeed, the executable
\* path holds the binary that was extracted and the state is Ready with the
\* update of the attempt: at the step of the move, and on to the end of the
\* attempt when nothing else runs meanwhile.
C8_SwapInstalls ==
    /\ [][\A p \in Callers :
            (pc[p] = "move" /\ Swapped(p)') =>
                /\ releaseName[p].target \in Binaries(Version(p))
                /\ executable' = Some([from |-> "release", release |-> Version(p),
                                       target |-> releaseName[p].target])
                /\ state'.type = "Ready"
                /\ state'.update = update[p]]_vars
    /\ [](\A p \in Callers :
            (Swapped(p) /\ ~raced[p]) =>
                /\ ReadyWith(update[p])
                /\ Installed(Version(p)))
    /\ [](\A o \in settled :
            (IsDownload(o) /\ o.caught = None /\ ~o.raced) =>
                /\ ReadyWith(o.update)
                /\ Installed(The(o.update).version))

\* C8 witness: an attempt has ended after its swap, the state Ready and the
\* executable path holding the new binary.
C8_Witness ==
    \E o \in settled :
        /\ IsDownload(o)
        /\ o.caught = None
        /\ ReadyWith(o.update)
        /\ Installed(The(o.update).version)

\* The idle state carries a message that is not empty.
IdleWithMessage ==
    /\ state.type = "Idle"
    /\ state.message # None
    /\ The(state.message) # ""

\* C9: a failure at a step of a download attempt sets the state to Idle with a
\* message that is not empty, and the attempt does not reach Ready: the state
\* stays so to the end of the attempt when nothing else runs meanwhile.
C9_FailureIsReported ==
    /\ [][\A p \in Callers :
            (pc[p] # "rimraf" /\ pc'[p] = "rimraf" /\ caught'[p] # None)
                => IdleWithMessage']_vars
    /\ [](\A p \in Callers :
            (pc[p] = "rimraf" /\ caught[p] # None /\ ~raced[p]) => IdleWithMessage)
    /\ [](\A o \in settled :
            (IsDownload(o) /\ o.caught # None /\ ~o.raced) => IdleWithMessage)

\* C9 witness: the move of an attempt has failed and the state is Idle with the
\* error's message.
C9_Witness ==
    \E p \in Callers :
        /\ pc[p] = "rimraf"
        /\ caught[p] \in {Some(e) : e \in MoveErrors}
        /\ caught[p] = logged
        /\ state.type = "Idle"
        /\ state.message = Some(The(caught[p]).message)

CheckFailed(o) == IsCheck(o) /\ o.ran /\ o.caught # None

\* C11: the error handler gives the error to the log and sets the state to
\* Idle, with a message exactly when it is told to notify: a failed feed request
\* of a check leaves Idle with a message when the check was given a context and
\* Idle with no message when it was not, and a failed step of a download leaves
\* Idle with a message.
C11_HandlerReports ==
    /\ [](logged # None => state.type = "Idle")
    /\ [](\A o \in settled : CheckFailed(o) => logged = o.caught)
    /\ [][\A p \in Callers :
            (pc[p] = "check_fetch" /\ pc'[p] = "idle" /\ logged' # None) =>
                /\ state'.type = "Idle"
                /\ (state'.message # None) <=> (context[p] # "undefined")]_vars
    /\ [][\A p \in Callers :
            (pc[p] # "rimraf" /\ pc'[p] = "rimraf" /\ caught'[p] # None) =>
                /\ logged' = caught'[p]
                /\ state'.type = "Idle"
                /\ state'.message # None]_vars

\* C11 witness: a check called with no context has failed at its feed request;
\* the error is logged and the state is Idle with no message.
C11_Witness ==
    \E o \in settled :
        /\ CheckFailed(o)
        /\ logged = o.caught
        /\ state.type = "Idle"
        /\ state.message = None

\* The caller has a pipeline in flight: a feed check, or a download between its
\* start and the end of its swap.
InFlight(p) == pc[p] \notin {"idle", "rimraf"}

\* C12: at most one update pipeline is in flight at any time.
C12_OnePipeline ==
    \A p, q \in Callers : (InFlight(p) /\ InFlight(q)) => p = q

\* The state has just become Updating.
EntersUpdating == state'.type = "Updating" /\ state' # state

\* The state has just become CheckingForUpdates.
EntersChecking == state'.type = "CheckingForUpdates" /\ state' # state

\* C13: the state becomes Updating only from AvailableForDownload, and becomes
\* CheckingForUpdates only from Idle.
C13_EntryStates ==
    [][/\ EntersUpdating => state.type = "AvailableForDownload"
       /\ EntersChecking => state.type = "Idle"]_vars

\* C14: a check or a download never settles with its promise rejected.
C14_NothingPropagates ==
    \A o \in settled : (IsCheck(o) \/ IsDownload(o)) => o.how = "resolved"

\* The probe ran and one of its outputs names musl.
ReportsMusl(probe) ==
    ~probe.failed /\ (ContainsMusl(probe.stdout) \/ ContainsMusl(probe.stderr))

\* The probe failed to execute and the message of the failure names musl.
FailsNamingMusl(probe) == probe.failed /\ ContainsMusl(probe.message)

\* buildReleaseName has returned to the caller's download, which goes on.
Named(p) == pc[p] = "mkdirp" /\ caught[p] = None

\* C15, as stated: when the probe fails to execute, buildReleaseName does not
\* raise and the label stays "linux" whatever the message of the failure; the
\* label is "alpine" only when a probe that ran reports musl.
C15_FailedProbeKeepsLinux ==
    \A e \in probed :
        /\ Named(e.caller)
        /\ e.probe.failed => releaseName[e.caller].target = "linux"
        /\ releaseName[e.caller].target = "alpine" => ReportsMusl(e.probe)

\* C15, amended: buildReleaseName does not raise when the probe fails to
\* execute, and takes the message of the failure as the probe's stderr: the
\* label is "alpine" exactly when a probe that ran reports musl or the message
\* of a failed one names musl, and "linux" otherwise.
C15_ProbeLabel ==
    \A e \in probed :
        /\ Named(e.caller)
        /\ releaseName[e.caller].target =
                IF ReportsMusl(e.probe) \/ FailsNamingMusl(e.probe)
                THEN "alpine"
                ELSE "linux"

\* C15 witness: the probe failed to execute with a message naming musl, and the
\* download goes on with the label "alpine".
C15_Witness ==
    \E e \in probed :
        /\ FailsNamingMusl(e.probe)
        /\ Named(e.caller)
        /\ releaseName[e.caller].target = "alpine"

\* The caller's call moves from one await to another.
Moves(p, from, to) == pc[p] = from /\ pc'[p] = to

\* C16: within an attempt the executable path is deleted before the new binary
\* is moved into it.  The move starts only at the step where the unlink has
\* succeeded and the path is gone; a failed unlink leaves the path as it was
\* and ends the attempt in Idle with a message, no move made; the unlink starts
\* only once, after the extraction, and the move is followed by the cleanup
\* only; the path is filled only by a move into the deleted path.
C16_UnlinkThenMove ==
    [][\A p \in Callers :
        /\ (pc[p] # "move" /\ pc'[p] = "move") =>
                /\ pc[p] = "unlink"
                /\ executable # None
                /\ executable' = None
        /\ (pc[p] = "unlink" /\ pc'[p] \notin {"unlink", "move"}) =>
                /\ pc'[p] = "rimraf"
                /\ caught'[p] # None
                /\ IdleWithMessage'
                /\ executable' = executable
        /\ (pc[p] # "unlink" /\ pc'[p] = "unlink") => pc[p] = "extract"
        /\ (pc[p] = "move" /\ pc'[p] # "move") => pc'[p] = "rimraf"
        /\ (executable' # None /\ executable' # executable) =>
                /\ executable = None
                /\ \E q \in Callers : Moves(q, "move", "rimraf")]_vars

\* C16 witness: the unlink of an attempt has failed; the executable is the one
\* the process was started from and the state is Idle with a message.
C16_Witness ==
    \E p \in Callers :
        /\ pc[p] = "rimraf"
        /\ caught[p] \in {Some(e) : e \in UnlinkErrors}
        /\ caught[p] = logged
        /\ executable = Some(InstalledBinary)
        /\ IdleWithMessage

\* C17: the code pipes the response through gunzip exactly when the target is
\* not darwin and the content-encoding is not gzip; the file written for a
\* target other than darwin has been decompressed exactly once, whatever the
\* encoding, and for darwin the stream is written as the response gave it.
C17_GunzipFilter ==
    [][\A p \in Callers :
        /\ Moves(p, "request", "writeFile") =>
                /\ stream'[p].encoding \in Encodings
                /\ stream'[p].gunzipped <=>
                        (host.platform # "darwin" /\ stream'[p].encoding # "gzip")
        /\ Moves(p, "writeFile", "extract") =>
                \E f \in archive'[Version(p)] :
                    /\ f.complete
                    /\ host.platform # "darwin" => f.gunzips = 1
                    /\ host.platform = "darwin" =>
                            /\ ~stream[p].gunzipped
                            /\ f.gunzips =
                                    IF stream[p].encoding = "gzip" THEN 1 ELSE 0]_vars

\* C17 witness: on linux a response with no gzip encoding was piped through
\* gunzip and the file written has been decompressed once.
C17_Witness ==
    \E p \in Callers :
        /\ pc[p] = "extract"
        /\ host.platform = "linux"
        /\ stream[p] = [encoding |-> "identity", gunzipped |-> TRUE]
        /\ archive[Version(p)] = Some([complete |-> TRUE, gunzips |-> 1])

\* C18: when every awaited operation settles in the end, the state does not
\* stay CheckingForUpdates or Updating for ever: from CheckingForUpdates it
\* comes to Idle or AvailableForDownload, from Updating to Ready or Idle, and
\* every pipeline that was started comes to its end.
C18_NeverStuck ==
    /\ (state.type = "CheckingForUpdates")
            ~> (state.type \in {"Idle", "AvailableForDownload"})
    /\ (state.type = "Updating") ~> (state.type \in {"Ready", "Idle"})
    /\ \A p \in Callers : InFlight(p) ~> ~InFlight(p)

\* C18 witness: a check and a download were started, both have come to their
\* end and the state is Idle or Ready.
C18_Witness ==
    /\ calls = MaxCalls
    /\ \A p \in Callers : pc[p] = "idle"
    /\ removals = {}
    /\ \E o \in settled : IsDownload(o) /\ o.ran
    /\ state.type \in {"Idle", "Ready"}

\* The errors of the steps before the unlink.
BeforeUnlinkErrors == EarlyErrors \cup {NoBinaryError}

\* C19: the executable is deleted only when the new binary is at its expected
\* path in the extracted directory, and an attempt that fails before the unlink,
\* nothing else running meanwhile, leaves the executable the process was started
\* from.
C19_DeletedOnlyWithBinary ==
    /\ [][\A p \in Callers :
            (Moves(p, "unlink", "move") /\ executable' = None) =>
                releaseName[p].target \in Binaries(Version(p))]_vars
    /\ [](\A o \in settled :
            (/\ IsDownload(o)
             /\ ~o.raced
             /\ o.caught \in {Some(e) : e \in BeforeUnlinkErrors})
                => executable = Some(InstalledBinary))

\* C20: whenever the state is Ready, the executable path holds the binary of
\* the release the state carries.
C20_ReadyMeansInstalled ==
    state.type = "Ready" => \E u \in state.update : Installed(u.version)

====
